---- MODULE Spec2Model ----
(***************************************************************************)
(* Model of the domain lookup tree of src/src/lib.rs (DomainLookupTree,    *)
(* Node, insert, lookup, traverse, domain_to_rseg) and of the insert       *)
(* sequence of src/src/main.rs.                                            *)
(*                                                                         *)
(* A string is a sequence of one-character strings, so that split(".")     *)
(* and starts_with(".") are computed character by character. A NodeList    *)
(* (HashMap<String, Node>) is a function from labels to Node records.      *)
(* Option<T> is a record: None or Some(v).                                 *)
(***************************************************************************)
EXTENDS Integers, Sequences, FiniteSets, TLC

VARIABLES nodes,          \* DomainLookupTree.nodes : the root NodeList
          minimum_level,  \* DomainLookupTree.minimum_level
          history,        \* the domains passed to insert so far, in call order
          call            \* the last call made on the tree and what it returned

vars == <<nodes, minimum_level, history, call>>

----------------------------------------------------------------------------
(* Bounds *)

MaxInserts == 3       \* number of insert calls in one behaviour
MaxLevel == 1         \* largest minimum_level passed to new

----------------------------------------------------------------------------
(* Option<T> *)

None == [tag |-> "None"]
Some(v) == [tag |-> "Some", val |-> v]

----------------------------------------------------------------------------
(* Strings *)

Dot == "."

starts_with(domain, ch) == Len(domain) > 0 /\ domain[1] = ch

\* str::split(".") : the pieces between the dots, in order; a string
\* without a dot (the empty string included) is its own only piece
RECURSIVE split(_)
split(s) ==
    IF \E i \in 1..Len(s) : s[i] = Dot
    THEN LET i == CHOOSE k \in 1..Len(s) :
                      s[k] = Dot /\ \A j \in 1..(k - 1) : s[j] # Dot
         IN  <<SubSeq(s, 1, i - 1)>> \o split(SubSeq(s, i + 1, Len(s)))
    ELSE <<s>>

\* Vec::reverse
reverse(v) == [i \in 1..Len(v) |-> v[Len(v) + 1 - i]]

domain_to_rseg(domain) == reverse(split(domain))

----------------------------------------------------------------------------
(* NodeList = HashMap<String, Node> *)

NodeList_new == [s \in {} |-> s]

\* HashMap::insert(key, node)
HashMap_insert(head, key, node) ==
    [s \in (DOMAIN head) \cup {key} |-> IF s = key THEN node ELSE head[s]]

\* NewNode with the wildcard flag of the rule on every node created
NewNode_WildcardOfRule(i, segments_len, is_wildcard, segment) ==
    [wildcard |-> is_wildcard,
     nodes    |-> NodeList_new,
     parent   |-> None,
     data     |-> segment]

\* the Node literal built in the None arm of insert
NewNode(i, segments_len, is_wildcard, segment) ==
    [wildcard |-> (i = segments_len /\ is_wildcard),
     nodes    |-> NodeList_new,
     parent   |-> None,
     data     |-> segment]

----------------------------------------------------------------------------
(* DomainLookupTree::insert                                                *)
(* head is a reference to self.nodes and is never re-pointed: the None arm *)
(* inserts the segment into the map head refers to, and the Some arm       *)
(* assigns n.nodes through the reference head, which overwrites the        *)
(* root map with the children of the node found. i counts from 0.          *)

RECURSIVE insert_loop(_, _, _, _)
insert_loop(head, segments, i, is_wildcard) ==
    IF i >= Len(segments) THEN head
    ELSE LET segment == segments[i + 1] IN
         IF segment \notin DOMAIN head
         THEN insert_loop(
                 HashMap_insert(head, segment,
                     NewNode(i, Len(segments), is_wildcard, segment)),
                 segments, i + 1, is_wildcard)
         ELSE insert_loop(head[segment].nodes, segments, i + 1, is_wildcard)

insert(self_nodes, domain) ==
    insert_loop(self_nodes, domain_to_rseg(domain), 0, starts_with(domain, Dot))

----------------------------------------------------------------------------
(* DomainLookupTree::traverse and lookup *)

\* traverse_loop with the absolute match taken at the last segment
RECURSIVE traverse_loop_LastSegment(_, _, _, _)
traverse_loop_LastSegment(head, segments, i, matched) ==
    IF i >= Len(segments) THEN matched
    ELSE LET segment == segments[i + 1] IN
         IF segment \notin DOMAIN head
         THEN matched
         ELSE LET child == head[segment]
                  m1 == IF child.wildcard THEN Some(child) ELSE matched
              IN  IF Cardinality(DOMAIN child.nodes) = 0
                  THEN IF i + 1 = Len(segments) THEN Some(child) ELSE m1
                  ELSE traverse_loop_LastSegment(child.nodes, segments, i + 1, m1)

\* the loop 'sl of traverse from segment i (counted from 0) on; leaving the
\* loop by break or by exhausting the segments returns matched
RECURSIVE traverse_loop(_, _, _, _)
traverse_loop(head, segments, i, matched) ==
    IF i >= Len(segments) THEN matched
    ELSE LET segment == segments[i + 1] IN
         IF segment \notin DOMAIN head
         THEN matched
         ELSE LET child == head[segment]
                  m1 == IF child.wildcard THEN Some(child) ELSE matched
              IN  IF Cardinality(DOMAIN child.nodes) = 0
                  THEN IF i = Len(segments) THEN Some(child) ELSE m1
                  ELSE traverse_loop(child.nodes, segments, i + 1, m1)

traverse(self_nodes, domain) ==
    traverse_loop(self_nodes, domain_to_rseg(domain), 0, None)

lookup(self_nodes, domain) ==
    LET r == traverse(self_nodes, domain)
    IN  IF r = None THEN None ELSE Some(r.val.data)

----------------------------------------------------------------------------
(* Inputs: rules and queries over the labels a, b, c, x *)

Rules ==
    { <<"c">>,
      <<"b", ".", "c">>,
      <<"a", ".", "b", ".", "c">>,
      <<"x", ".", "c">>,
      <<"x", ".", "y", ".", "a", ".", "b", ".", "c">>,
      <<".", "c">>,
      <<".", "b", ".", "c">>,
      <<".", "x", ".", "c">> }

Queries ==
    { <<"c">>,
      <<"b">>,
      <<"b", ".", "c">>,
      <<"x", ".", "c">>,
      <<"a", ".", "b", ".", "c">>,
      <<"x", ".", "b", ".", "c">>,
      <<"a", ".", "x", ".", "c">>,
      <<"b", ".", "a", ".", "b", ".", "c">> }

----------------------------------------------------------------------------
(* The library driven by an arbitrary caller *)

\* DomainLookupTree::new(minimum_level)
Init ==
    /\ nodes = NodeList_new
    /\ minimum_level \in 0..MaxLevel
    /\ history = <<>>
    /\ call = [op |-> "new"]

Insert(domain) ==
    /\ Len(history) < MaxInserts
    /\ nodes' = insert(nodes, domain)
    /\ history' = Append(history, domain)
    /\ call' = [op |-> "insert", arg |-> domain]
    /\ UNCHANGED minimum_level

\* Lookup that creates the nodes of the domain it does not find
Lookup_CreatesMissing(domain) ==
    /\ call' = [op |-> "lookup", arg |-> domain, ret |-> lookup(nodes, domain)]
    /\ nodes' = insert(nodes, domain)
    /\ UNCHANGED <<minimum_level, history>>

Lookup(domain) ==
    /\ call' = [op |-> "lookup", arg |-> domain, ret |-> lookup(nodes, domain)]
    /\ UNCHANGED <<nodes, minimum_level, history>>

Next ==
    \/ \E domain \in Rules : Insert(domain)
    \/ \E domain \in Queries : Lookup(domain)

Spec == Init /\ [][Next]_vars

----------------------------------------------------------------------------
(* The strings of src/src/main.rs and src/tests/tests.rs *)

s_test_com == <<"t", "e", "s", "t", ".", "c", "o", "m">>
s_www_test_com == <<"w", "w", "w", ".", "t", "e", "s", "t", ".", "c", "o", "m">>
s_123_test_com == <<"1", "2", "3", ".", "t", "e", "s", "t", ".", "c", "o", "m">>
s_dot_google_com == <<".", "g", "o", "o", "g", "l", "e", ".", "c", "o", "m">>
s_dot_test_google_com == <<".", "t", "e", "s", "t", ".", "g", "o", "o", "g", "l", "e", ".", "c", "o", "m">>
s_123_test_google_com == <<"1", "2", "3", ".", "t", "e", "s", "t", ".", "g", "o", "o", "g", "l", "e", ".", "c", "o", "m">>
s_foo_test_com == <<"f", "o", "o", ".", "t", "e", "s", "t", ".", "c", "o", "m">>
s_google_com == <<"g", "o", "o", "g", "l", "e", ".", "c", "o", "m">>
s_anything_google_com == <<"a", "n", "y", "t", "h", "i", "n", "g", ".", "g", "o", "o", "g", "l", "e", ".", "c", "o", "m">>
s_other_test_google_com == <<"o", "t", "h", "e", "r", ".", "t", "e", "s", "t", ".", "g", "o", "o", "g", "l", "e", ".", "c", "o", "m">>
s_googlae_com == <<"g", "o", "o", "g", "l", "a", "e", ".", "c", "o", "m">>
s_a_b_c_123_test_com == <<"a", ".", "b", ".", "c", ".", "1", "2", "3", ".", "t", "e", "s", "t", ".", "c", "o", "m">>
s_phineas_io == <<"p", "h", "i", "n", "e", "a", "s", ".", "i", "o">>
s_abc_com == <<"a", "b", "c", ".", "c", "o", "m">>
s_com == <<"c", "o", "m">>
s_test_google_com == <<"t", "e", "s", "t", ".", "g", "o", "o", "g", "l", "e", ".", "c", "o", "m">>

\* the inserts of main, in call order
MainRules ==
    << s_test_com,
       s_www_test_com,
       s_123_test_com,
       s_dot_google_com,
       s_dot_test_google_com,
       s_123_test_google_com >>

MainQueries ==
    { s_test_com,
      s_foo_test_com,
      s_google_com,
      s_anything_google_com,
      s_123_test_google_com,
      s_other_test_google_com,
      s_googlae_com,
      s_www_test_com,
      s_123_test_com,
      s_a_b_c_123_test_com,
      s_phineas_io,
      s_abc_com,
      s_com,
      s_test_google_com }

----------------------------------------------------------------------------
(* main: DomainLookupTree::new(0), then the six inserts in order; lookups  *)
(* may be made at any point                                                *)

InitMain ==
    /\ nodes = NodeList_new
    /\ minimum_level = 0
    /\ history = <<>>
    /\ call = [op |-> "new"]

MainInsert ==
    /\ Len(history) < Len(MainRules)
    /\ nodes' = insert(nodes, MainRules[Len(history) + 1])
    /\ history' = Append(history, MainRules[Len(history) + 1])
    /\ call' = [op |-> "insert", arg |-> MainRules[Len(history) + 1]]
    /\ UNCHANGED minimum_level

MainLookup(domain) ==
    /\ call' = [op |-> "lookup", arg |-> domain, ret |-> lookup(nodes, domain)]
    /\ UNCHANGED <<nodes, minimum_level, history>>

NextMain ==
    \/ MainInsert
    \/ \E domain \in MainQueries : MainLookup(domain)

SpecMain == InitMain /\ [][NextMain]_vars

----------------------------------------------------------------------------
(* Vocabulary of the properties *)

\* the set of domains passed to insert so far
Inserted == {history[k] : k \in 1..Len(history)}

\* a rule with a leading dot
IsWildcardRule(r) == starts_with(r, Dot)

\* X of the wildcard rule ".X"
Bare(r) == SubSeq(r, 2, Len(r))

EndsWith(q, r) ==
    Len(q) >= Len(r) /\ SubSeq(q, Len(q) - Len(r) + 1, Len(q)) = r

\* q = P + ".X" for a non-empty prefix P, where r = ".X"
IsSubdomainOf(q, r) == Len(q) > Len(r) /\ EndsWith(q, r)

\* the wildcard rule r = ".X" covers q: q = X or q is a subdomain of X
Covers(r, q) == IsWildcardRule(r) /\ (q = Bare(r) \/ IsSubdomainOf(q, r))

\* the labels of a rule, top-level first, without the empty segment that
\* the leading dot of a wildcard rule produces
RealLabels(r) == domain_to_rseg(IF IsWildcardRule(r) THEN Bare(r) ELSE r)

\* segments is a nested path of the tree: head has a child segments[1],
\* that node has a child segments[2], and so on
RECURSIVE IsPath(_, _)
IsPath(head, segments) ==
    IF segments = <<>> THEN TRUE
    ELSE /\ Head(segments) \in DOMAIN head
         /\ IsPath(head[Head(segments)].nodes, Tail(segments))

\* the query has neither an exact path nor an inserted wildcard rule over it
Unmatched(q) ==
    /\ ~IsPath(nodes, domain_to_rseg(q))
    /\ ~\E r \in Inserted : Covers(r, q)

\* the longest of a non-empty set of rules
Longest(W) == CHOOSE r \in W : \A o \in W : Len(o) <= Len(r)

r_b_c == <<"b", ".", "c">>
r_a_b_c == <<"a", ".", "b", ".", "c">>
r_x_b_c == <<"x", ".", "b", ".", "c">>
r_x_c == <<"x", ".", "c">>
r_dot_c == <<".", "c">>
r_dot_b_c == <<".", "b", ".", "c">>

----------------------------------------------------------------------------
(* Properties *)

\* C1: after any sequence of inserts, for every absolute rule R that was
\* inserted, lookup(R) returns exactly R, whatever else was inserted.
C1_AbsoluteRuleFound ==
    \A r \in Inserted : ~IsWildcardRule(r) => lookup(nodes, r) = Some(r)

\* C2: for every inserted wildcard rule ".X" and every query P.X with a
\* non-empty prefix P, lookup(P.X) returns ".X".
C2_WildcardMatchesSubdomains ==
    \A r \in Inserted : \A q \in Queries :
        (IsWildcardRule(r) /\ IsSubdomainOf(q, r)) => lookup(nodes, q) = Some(r)

\* C3: for every inserted wildcard rule ".X", lookup(X) on the bare domain
\* returns ".X".
C3_WildcardMatchesOwnDomain ==
    \A r \in Inserted : IsWildcardRule(r) => lookup(nodes, Bare(r)) = Some(r)

\* C4: lookup(Q) returns none whenever Q's label sequence is not an existing
\* tree path and no inserted wildcard rule ".X" has X equal to Q or a
\* label-aligned suffix of Q.
C4_UnmatchedIsNone ==
    \A q \in Queries : Unmatched(q) => lookup(nodes, q) = None

\* C4 witness: with a wildcard rule in the tree, a lookup of a query under a
\* different second-level label was made and returned none.
C4_Witness ==
    /\ r_dot_b_c \in Inserted
    /\ call.op = "lookup"
    /\ call.arg = r_x_c
    /\ Unmatched(call.arg)
    /\ call.ret = None

\* C5: exact beats wildcard ancestor: with ".b.c" and "a.b.c" both inserted,
\* lookup("a.b.c") returns "a.b.c"; a query that fully consumes an existing
\* path returns that path.
C5_ExactBeatsWildcard ==
    /\ (r_dot_b_c \in Inserted /\ r_a_b_c \in Inserted)
           => lookup(nodes, r_a_b_c) = Some(r_a_b_c)
    /\ \A q \in Queries :
           IsPath(nodes, domain_to_rseg(q)) => lookup(nodes, q) = Some(q)

\* C6: deepest wildcard wins: with ".c" and ".b.c" both inserted,
\* lookup("x.b.c") returns ".b.c"; a query without an exact path returns the
\* deepest wildcard rule over it, never a shallower one.
C6_DeepestWildcardWins ==
    /\ (r_dot_c \in Inserted /\ r_dot_b_c \in Inserted)
           => lookup(nodes, r_x_b_c) = Some(r_dot_b_c)
    /\ \A q \in Queries :
           LET W == {r \in Inserted : Covers(r, q)}
           IN  (W # {} /\ ~IsPath(nodes, domain_to_rseg(q)))
                   => lookup(nodes, q) = Some(Longest(W))

\* C8: idempotence of insert: inserting a rule that was inserted before
\* leaves the lookup result of every query as it was.
C8_InsertIdempotent ==
    [][\A r \in Rules :
          (r \in Inserted /\ history' = Append(history, r))
              => \A q \in Queries : lookup(nodes', q) = lookup(nodes, q)]_vars

\* C8 witness: the last call inserted a rule that had been inserted before.
C8_Witness ==
    /\ call.op = "insert"
    /\ \E k \in 1..(Len(history) - 1) : history[k] = call.arg
    /\ history[Len(history)] = call.arg

\* C9: after the six inserts of main, lookup("test.com") = "test.com",
\* lookup("foo.test.com") = none, lookup("google.com") = ".google.com",
\* lookup("anything.google.com") = ".google.com",
\* lookup("123.test.google.com") = "123.test.google.com" and
\* lookup("other.test.google.com") = ".test.google.com".
C9_Scenario ==
    history = MainRules =>
        /\ lookup(nodes, s_test_com) = Some(s_test_com)
        /\ lookup(nodes, s_foo_test_com) = None
        /\ lookup(nodes, s_google_com) = Some(s_dot_google_com)
        /\ lookup(nodes, s_anything_google_com) = Some(s_dot_google_com)
        /\ lookup(nodes, s_123_test_google_com) = Some(s_123_test_google_com)
        /\ lookup(nodes, s_other_test_google_com) = Some(s_dot_test_google_com)

\* C10: insert builds a nested path: right after insert(R) the root has a
\* child for R's top-level label, that node a child for the next label, and
\* so on down to R's last real label.
C10_InsertBuildsNestedPath ==
    call.op = "insert" => IsPath(nodes, RealLabels(call.arg))

\* every node of old is a node of new at the same path, with the same label,
\* with a wildcard flag that is still on if it was on, and with its children
\* kept in the same way
RECURSIVE Grows(_, _)
Grows(old, new) ==
    \A k \in DOMAIN old :
        /\ k \in DOMAIN new
        /\ new[k].data = old[k].data
        /\ (old[k].wildcard => new[k].wildcard)
        /\ Grows(old[k].nodes, new[k].nodes)

\* C11: monotone growth: across every insert call every node present before
\* the call is present afterwards at the same path with the same label and
\* its children, and a wildcard flag that was on is still on.
C11_MonotoneGrowth ==
    [][Grows(nodes, nodes')]_vars

\* no node of the tree below head has the empty string as its label
RECURSIVE NoEmptyLabel(_)
NoEmptyLabel(head) ==
    \A k \in DOMAIN head : k # <<>> /\ NoEmptyLabel(head[k].nodes)

\* C12: no node anywhere in the tree has the empty string as its label: the
\* empty segment of a wildcard rule's leading dot is never inserted.
C12_NoEmptyLabel ==
    NoEmptyLabel(nodes)

\* every wildcard-flagged node below head, reached by the labels path, is the
\* node of an inserted wildcard rule ".X" whose labels are that path
RECURSIVE FlaggedOnlyByRule(_, _)
FlaggedOnlyByRule(head, path) ==
    \A k \in DOMAIN head :
        /\ head[k].wildcard =>
               \E r \in Inserted :
                   IsWildcardRule(r) /\ RealLabels(r) = Append(path, k)
        /\ FlaggedOnlyByRule(head[k].nodes, Append(path, k))

\* C13: a node is wildcard-flagged only if some inserted wildcard rule ".X"
\* has X equal to the node's full path; intermediate nodes and the terminal
\* nodes of absolute rules are never flagged.
C13_FlaggedOnlyByRule ==
    FlaggedOnlyByRule(nodes, <<>>)

\* C13 witness: a wildcard rule of two labels and an absolute rule were
\* inserted, the last insert left nodes in the tree, and none of them is
\* flagged without a rule.
C13_Witness ==
    /\ call.op = "insert"
    /\ \E r \in Inserted : IsWildcardRule(r) /\ Len(RealLabels(r)) > 1
    /\ \E r \in Inserted : ~IsWildcardRule(r)
    /\ DOMAIN nodes # {}
    /\ FlaggedOnlyByRule(nodes, <<>>)

\* the domain a rule is about: X for the wildcard rule ".X", R for the
\* absolute rule R
RealDomain(r) == IF IsWildcardRule(r) THEN Bare(r) ELSE r

\* domain d lies strictly below domain q: d = P + "." + q
IsBelow(d, q) == IsSubdomainOf(d, <<Dot>> \o q)

\* C14: inserting the wildcard rule ".X" after "X" or a rule below X was
\* inserted turns the flag of X's node on: afterwards lookup(X) = ".X" and
\* lookup(P.X) = ".X" for every P.X that is not an existing path.
C14_WildcardOnExistingNode ==
    (/\ call.op = "insert"
     /\ IsWildcardRule(call.arg)
     /\ \E k \in 1..(Len(history) - 1) :
            \/ RealDomain(history[k]) = Bare(call.arg)
            \/ IsBelow(RealDomain(history[k]), Bare(call.arg)))
    => /\ lookup(nodes, Bare(call.arg)) = Some(call.arg)
       /\ \A q \in Queries :
              (IsSubdomainOf(q, call.arg) /\ ~IsPath(nodes, domain_to_rseg(q)))
                  => lookup(nodes, q) = Some(call.arg)

\* C15: lookup is read-only: a lookup call leaves the tree (nodes, labels,
\* children, wildcard flags) as it was, and repeating the query of the last
\* lookup returns the same result.
C15_LookupReadOnly ==
    [][call'.op = "lookup" =>
          /\ nodes' = nodes
          /\ minimum_level' = minimum_level
          /\ (call.op = "lookup" /\ call.arg = call'.arg)
                 => call'.ret = call.ret]_vars

\* C15 witness: a lookup was made on a tree that holds nodes.
C15_Witness ==
    /\ call.op = "lookup"
    /\ DOMAIN nodes # {}
    /\ call.ret = lookup(nodes, call.arg)

\* C16: scaffolding nodes match: a query whose label sequence is an existing
\* path, that was never inserted as a rule and lies above an inserted rule,
\* is looked up to the bare query domain.
C16_ScaffoldingMatches ==
    \A q \in Queries :
        (/\ IsPath(nodes, domain_to_rseg(q))
         /\ \A r \in Inserted : RealDomain(r) # q
         /\ \E r \in Inserted : IsBelow(RealDomain(r), q))
        => lookup(nodes, q) = Some(q)

r_x_y_a_b_c == <<"x", ".", "y", ".", "a", ".", "b", ".", "c">>

\* C17: a query with fewer labels than every absolute rule below it, whose
\* path passes through a wildcard ancestor, is looked up to that ancestor's
\* rule: with ".b.c" and "x.y.a.b.c" inserted, lookup("a.b.c") = ".b.c".
C17_ShorterQueryGetsWildcardAncestor ==
    /\ (/\ r_dot_b_c \in Inserted
        /\ r_x_y_a_b_c \in Inserted
        /\ r_a_b_c \notin Inserted)
           => lookup(nodes, r_a_b_c) = Some(r_dot_b_c)
    /\ \A q \in Queries :
           LET W == {r \in Inserted : IsWildcardRule(r) /\ IsSubdomainOf(q, r)}
           IN  (/\ W # {}
                /\ \A r \in Inserted : RealDomain(r) # q
                /\ \E r \in Inserted :
                       ~IsWildcardRule(r) /\ IsBelow(r, q))
               => lookup(nodes, q) = Some(Longest(W))

RECURSIVE InsertAll(_, _)
InsertAll(head, rules) ==
    IF Len(rules) = 0 THEN head
    ELSE InsertAll(insert(head, rules[1]),
                   [k \in 1..(Len(rules) - 1) |-> rules[k + 1]])

\* the orders of n calls
Orders(n) ==
    {p \in [1..n -> 1..n] : \A i, j \in 1..n : p[i] = p[j] => i = j}

\* C19: insertion order does not matter: inserting the rules of a set in any
\* order into a new tree yields the tree that the order taken has yielded.
C19_OrderIrrelevant ==
    Cardinality(Inserted) = Len(history) =>
        \A p \in Orders(Len(history)) :
            InsertAll(NodeList_new,
                      [k \in 1..Len(history) |-> history[p[k]]]) = nodes

====
